---- MODULE Spec2Model ----
(***************************************************************************)
(* Shader resource and binding descriptor model of shadPS4                 *)
(* (src/shader_recompiler/info.h): the user-data register mask, the        *)
(* binding accumulator, the packing of user-data registers into the push   *)
(* constant block, the resolution of sharps and the draw offsets.          *)
(*                                                                         *)
(* A u32 that needs all of its 32 bits (UserDataMask::mask) is held as two *)
(* 16-bit halves <<low, high>>; a 64-bit address as four 16-bit limbs,     *)
(* least significant first.  User-data words, counters and offsets are     *)
(* naturals.                                                               *)
(***************************************************************************)
EXTENDS Integers, Sequences, FiniteSets

VARIABLES
    \* Info::UserDataMask under construction by the analysis
    ud_mask,        \* UserDataMask::mask
    set_calls,      \* history: the registers Set was called with
    ret,            \* the last call and what it returned
    \* one pipeline build followed by one bind
    stages,         \* the Info records of the pipeline, in stage order
    bnd0,           \* the accumulator before the first stage
    pc,             \* which pass runs
    pos,            \* stages the running pass has processed
    bnd,            \* Backend::Bindings of the pipeline build (AddBindings)
    bnd_swap,       \* Backend::Bindings of a build that visits the first two stages swapped
    bnd_push,       \* Backend::Bindings of the bind (PushUd)
    push,           \* PushData::ud_regs
    trail,          \* history: the accumulators after each stage of each pass
    ud_writes,      \* history: the writes to push.ud_regs, <<stage, position, register>>
    ud_reads,       \* history: the registers read from user_data, <<stage, register>>
    \* bind-time reads of one Info record
    user_data,      \* Info::user_data, the captured register words
    memory,         \* emulated memory: address -> descriptor
    info,           \* vertex_offset_sgpr and instance_offset_sgpr of the record
    res,            \* the last read and what it returned
    accesses        \* the locations the last call read

maskVars == <<ud_mask, set_calls, ret>>
pipeVars == <<stages, bnd0, pc, pos, bnd, bnd_swap, bnd_push, push, trail, ud_writes, ud_reads>>
readVars == <<user_data, memory, info, res, accesses>>
vars == <<maskVars, pipeVars, readVars>>

NumUserDataRegs == 16

\* IR::NumScalarRegs: the register index that stands for "no indirection"
NumScalarRegs == 104

(***************************************************************************)
(* 32-bit arithmetic on halves                                             *)
(***************************************************************************)
Half == 2^16

RECURSIVE AndN(_, _)
AndN(a, b) ==
    IF a = 0 \/ b = 0 THEN 0
    ELSE (a % 2) * (b % 2) + 2 * AndN(a \div 2, b \div 2)

RECURSIVE OrN(_, _)
OrN(a, b) ==
    IF a = 0 THEN b
    ELSE IF b = 0 THEN a
    ELSE (IF a % 2 = 1 \/ b % 2 = 1 THEN 1 ELSE 0) + 2 * OrN(a \div 2, b \div 2)

RECURSIVE PopN(_)
PopN(a) == IF a = 0 THEN 0 ELSE (a % 2) + PopN(a \div 2)

RECURSIVE CtzN(_)
CtzN(a) == IF a % 2 = 1 THEN 0 ELSE 1 + CtzN(a \div 2)

Zero32 == <<0, 0>>

\* 1 << r and 1U << r, r in 0..31
Shl1(r) == IF r < 16 THEN <<2^r, 0>> ELSE <<0, 2^(r - 16)>>

Or32(a, b) == <<OrN(a[1], b[1]), OrN(a[2], b[2])>>

And32(a, b) == <<AndN(a[1], b[1]), AndN(a[2], b[2])>>

Not32(a) == <<Half - 1 - a[1], Half - 1 - a[2]>>

\* a - 1 for a > 0
Dec32(a) == IF a[1] > 0 THEN <<a[1] - 1, a[2]>> ELSE <<Half - 1, a[2] - 1>>

popcount(a) == PopN(a[1]) + PopN(a[2])

countr_zero(a) == IF a[1] # 0 THEN CtzN(a[1]) ELSE 16 + CtzN(a[2])

(***************************************************************************)
(* Info::UserDataMask                                                      *)
(***************************************************************************)
\* The registers the analysis marks in this model
MaskRegs == {0, 2, 5, 9, 15, 16, 30, 31}

\* mask |= 1 << reg
MaskSet(mask, reg) == Or32(mask, Shl1(reg))

\* (1 << reg) - 1 is computed in int.  For reg <= 30 it is 2^reg - 1.  For
\* reg = 31, 1 << 31 is INT_MIN and the subtraction overflows a signed int:
\* the behaviour is undefined, and the value converted to u32 is whatever the
\* build makes of it (the two's complement wrap 0x7FFFFFFF among others).
RegMaskOutcomes(reg) ==
    IF reg < 31 THEN {Dec32(Shl1(reg))}
    ELSE {<<Half - 1, Half \div 2 - 1>>, <<0, Half \div 2>>, <<Half - 1, Half - 1>>, Zero32}

\* std::popcount(mask & reg_mask)
MaskIndex(mask, reg_mask) == popcount(And32(mask, reg_mask))

NumRegs(mask) == popcount(mask)

MaskIdle ==
    /\ ud_mask = Zero32
    /\ set_calls = {}
    /\ ret = [op |-> "none", reg |-> 0, val |-> 0]

Set(reg) ==
    /\ ud_mask' = MaskSet(ud_mask, reg)
    /\ set_calls' = set_calls \cup {reg}
    /\ ret' = [op |-> "Set", reg |-> reg, val |-> 0]

Index(reg) ==
    /\ \E reg_mask \in RegMaskOutcomes(reg) :
          ret' = [op |-> "Index", reg |-> reg, val |-> MaskIndex(ud_mask, reg_mask)]
    /\ UNCHANGED <<ud_mask, set_calls>>

CallNumRegs ==
    /\ ret' = [op |-> "NumRegs", reg |-> 0, val |-> NumRegs(ud_mask)]
    /\ UNCHANGED <<ud_mask, set_calls>>

(***************************************************************************)
(* Stage Info records of a pipeline                                        *)
(***************************************************************************)
MaxStages == 3

\* A resource list of n entries
Entries(n) == [k \in 1..n |-> [sgpr_base |-> 0, dword_offset |-> k - 1]]

RECURSIVE SetAll(_, _)
SetAll(mask, regs) ==
    IF regs = <<>> THEN mask ELSE SetAll(MaskSet(mask, Head(regs)), Tail(regs))

\* The record the analysis leaves for a stage with nb buffers, ntb texel
\* buffers, ni images and ns samplers, that called ud_mask.Set on the
\* registers of set_order in that order, and captured the register words
\* ud_base, ud_base + 1, ...
MkInfo(nb, ntb, ni, ns, set_order, ud_base) ==
    [buffers |-> Entries(nb), texture_buffers |-> Entries(ntb),
     images |-> Entries(ni), samplers |-> Entries(ns),
     ud_mask |-> SetAll(Zero32, set_order),
     user_data |-> [k \in 1..NumUserDataRegs |-> ud_base + k - 1],
     set_order |-> set_order]

StageInfos ==
    { MkInfo(2, 1, 1, 0, <<9, 2, 5>>, 64),
      MkInfo(1, 1, 0, 1, <<2, 5, 9>>, 256),
      MkInfo(1, 0, 0, 1, <<>>, 32),
      MkInfo(0, 1, 2, 1, <<0>>, 128),
      MkInfo(0, 1, 0, 0, <<15, 1>>, 512),
      MkInfo(1, 0, 1, 0, <<17, 3>>, 1024) }

Pipelines == UNION { [1..n -> StageInfos] : n \in 1..MaxStages }

ZeroBindings == [unified |-> 0, buffer |-> 0, user_data |-> 0]

\* The accumulators a pipeline build or a bind starts from
StartBindings == { ZeroBindings, [unified |-> 5, buffer |-> 2, user_data |-> 14] }

\* What push.ud_regs holds before the bind writes it
StaleWords == {0, 64}

(***************************************************************************)
(* Info::AddBindings                                                       *)
(***************************************************************************)
\* AddBindings that leaves the samplers out of the unified count
AddBindings_NoSamplers(inf, b) ==
    LET total_buffers == Len(inf.buffers) + Len(inf.texture_buffers)
    IN  [b EXCEPT !.buffer = @ + total_buffers,
                  !.unified = @ + total_buffers + Len(inf.images),
                  !.user_data = @ + NumRegs(inf.ud_mask)]

\* AddBindings that restarts the unified count from the buffer count
AddBindings_UnifiedFromBuffer(inf, b) ==
    LET total_buffers == Len(inf.buffers) + Len(inf.texture_buffers)
    IN  [b EXCEPT !.buffer = @ + total_buffers,
                  !.unified = b.buffer + total_buffers + Len(inf.images) + Len(inf.samplers),
                  !.user_data = @ + NumRegs(inf.ud_mask)]

AddBindings(inf, b) ==
    LET total_buffers == Len(inf.buffers) + Len(inf.texture_buffers)
    IN  [b EXCEPT !.buffer = @ + total_buffers,
                  !.unified = @ + total_buffers + Len(inf.images) + Len(inf.samplers),
                  !.user_data = @ + NumRegs(inf.ud_mask)]

(***************************************************************************)
(* Info::PushUd                                                            *)
(***************************************************************************)
RECURSIVE TopN(_)
TopN(a) == IF a \div 2 = 0 THEN 0 ELSE 1 + TopN(a \div 2)

\* The loop taking the highest marked register first
PushUdIndex_Highest(mask) == IF mask[2] # 0 THEN 16 + TopN(mask[2]) ELSE TopN(mask[1])

\* const u32 index = std::countr_zero(mask)
PushUdIndex(mask) == countr_zero(mask)

\* The assertion off by one on the counter
PushUdAssert_OffByOne(u, index) == u <= NumUserDataRegs /\ index < NumUserDataRegs

\* ASSERT(bnd.user_data < NumUserDataRegs && index < NumUserDataRegs)
PushUdAssert(u, index) == u < NumUserDataRegs /\ index < NumUserDataRegs

\* The store placing a register at its own index instead of packing it
PushUdStore_Sparse(inf, index, st) ==
    [st EXCEPT !.ud_regs[index] = inf.user_data[index + 1],
               !.user_data = @ + 1,
               !.writes = Append(@, <<index, index>>),
               !.reads = Append(@, index)]

\* push.ud_regs[bnd.user_data++] = user_data[index]
PushUdStore(inf, index, st) ==
    [st EXCEPT !.ud_regs[st.user_data] = inf.user_data[index + 1],
               !.user_data = @ + 1,
               !.writes = Append(@, <<st.user_data, index>>),
               !.reads = Append(@, index)]

\* The while loop: st is the accumulator's counter, the block, and the
\* accesses made so far; ok is FALSE once the assertion has failed.
RECURSIVE PushUdLoop(_, _, _)
PushUdLoop(inf, mask, st) ==
    IF mask = Zero32 THEN st
    ELSE LET index == PushUdIndex(mask)
         IN  IF ~PushUdAssert(st.user_data, index)
             THEN [st EXCEPT !.ok = FALSE]
             ELSE PushUdLoop(inf, And32(mask, Not32(Shl1(index))),
                             PushUdStore(inf, index, st))

PushUd(inf, b, regs) ==
    PushUdLoop(inf, inf.ud_mask,
               [ok |-> TRUE, user_data |-> b.user_data, ud_regs |-> regs,
                writes |-> <<>>, reads |-> <<>>])

(***************************************************************************)
(* A pipeline build, a build in swapped order, and a bind                  *)
(***************************************************************************)
\* The stage order with the first two stages exchanged
Swapped(s) ==
    IF Len(s) < 2 THEN s
    ELSE [k \in 1..Len(s) |-> IF k = 1 THEN s[2] ELSE IF k = 2 THEN s[1] ELSE s[k]]

PipeIdle ==
    /\ stages = <<>>
    /\ bnd0 = ZeroBindings
    /\ pc = "idle"
    /\ pos = 0
    /\ bnd = ZeroBindings
    /\ bnd_swap = ZeroBindings
    /\ bnd_push = ZeroBindings
    /\ push = [ud_regs |-> [i \in 0..NumUserDataRegs - 1 |-> 0]]
    /\ trail = [build |-> <<>>, swapped |-> <<>>, bind |-> <<>>]
    /\ ud_writes = <<>>
    /\ ud_reads = <<>>

PipeInit ==
    /\ stages \in Pipelines
    /\ bnd0 \in StartBindings
    /\ pc = "build"
    /\ pos = 0
    /\ bnd = bnd0
    /\ bnd_swap = bnd0
    /\ bnd_push = bnd0
    /\ \E w \in StaleWords : push = [ud_regs |-> [i \in 0..NumUserDataRegs - 1 |-> w]]
    /\ trail = [build |-> <<>>, swapped |-> <<>>, bind |-> <<>>]
    /\ ud_writes = <<>>
    /\ ud_reads = <<>>

\* The pass moves to the next stage, or the next pass starts
Advance(next) ==
    IF pos + 1 = Len(stages)
    THEN pc' = next /\ pos' = 0
    ELSE pc' = pc /\ pos' = pos + 1

\* The pipeline build calls AddBindings on the next stage
BuildStep ==
    /\ pc = "build"
    /\ bnd' = AddBindings(stages[pos + 1], bnd)
    /\ trail' = [trail EXCEPT !.build = Append(@, bnd')]
    /\ Advance("swapped")
    /\ UNCHANGED <<stages, bnd0, bnd_swap, bnd_push, push, ud_writes, ud_reads>>

\* A build that visits the first two stages in the other order
SwappedStep ==
    /\ pc = "swapped"
    /\ bnd_swap' = AddBindings(Swapped(stages)[pos + 1], bnd_swap)
    /\ trail' = [trail EXCEPT !.swapped = Append(@, bnd_swap')]
    /\ Advance("bind")
    /\ UNCHANGED <<stages, bnd0, bnd, bnd_push, push, ud_writes, ud_reads>>

\* The bind calls PushUd on the next stage; a failed ASSERT ends the program
BindStep ==
    /\ pc = "bind"
    /\ LET r == PushUd(stages[pos + 1], bnd_push, push.ud_regs)
       IN  /\ bnd_push' = [bnd_push EXCEPT !.user_data = r.user_data]
           /\ push' = [push EXCEPT !.ud_regs = r.ud_regs]
           /\ ud_writes' = ud_writes \o
                 [k \in 1..Len(r.writes) |-> <<pos + 1, r.writes[k][1], r.writes[k][2]>>]
           /\ ud_reads' = ud_reads \o [k \in 1..Len(r.reads) |-> <<pos + 1, r.reads[k]>>]
           /\ IF r.ok
              THEN /\ trail' = [trail EXCEPT !.bind = Append(@, bnd_push')]
                   /\ Advance("done")
              ELSE /\ pc' = "aborted"
                   /\ UNCHANGED <<trail, pos>>
    /\ UNCHANGED <<stages, bnd0, bnd, bnd_swap>>

(***************************************************************************)
(* Bind-time reads: Info::ReadUd, GetSharp, Info::GetDrawOffsets           *)
(***************************************************************************)
\* Two captures of the 16 user-data words.  Words 0-1, 4-5, 6-7 and 14-15 of
\* the first hold pointers: 4-5 is the pointer of 0-1 with bits 48..62 set.
UdSnapshots ==
    { <<4096, 0, 153, 64, 4096, 2147418112, 65532, 65537,
        8, 9, 10, 11, 12, 13, 12288, 0>>,
      <<8192, 131072, 258, 259, 8192, 0, 262, 263,
        264, 265, 266, 267, 268, 269, 270, 271>> }

\* What a read past the end of the user_data span may return: the word at an
\* even index, the word at an odd index
BeyondWords == {<<0, 0>>, <<12288, 65536>>}

\* The emulated addresses that hold a descriptor
MappedAddrs ==
    { <<l0, l1, l2, l3>> :
        l0 \in {4096, 4100, 4108, 8192, 8196, 8204, 12288, 12292, 12300, 65532, 0, 8},
        l1 \in {0, 1}, l2 \in {0, 1}, l3 \in {0, 32767} }

\* The memory image: a different descriptor at every mapped address
MemoryImage == [a \in MappedAddrs |-> 1 + a[1] + 3 * a[2] + 5 * a[3] + 7 * a[4]]

\* The all-zero descriptor, which converts to false
NullSharp == 0

SgprBases == {0, 4, 6, 15, NumScalarRegs}

DwordOffsets == {0, 1, 3, 16384}

InlineSharps == {NullSharp, 77}

OffsetSgprs == {-1, 3, 15}

\* user_data[i]; past the end of the span the read returns what lies there
UdWord(i, beyond) ==
    IF i < Len(user_data) THEN user_data[i + 1] ELSE beyond[(i % 2) + 1]

\* std::memcpy(&base, &user_data[ptr_index], sizeof(base)): the word at
\* ptr_index is the low half of the pointer, the next word the high half
PtrOf(lo, hi) == <<lo % Half, lo \div Half, hi % Half, hi \div Half>>

\* The pointer used with its upper 16 bits
Mask48_Unmasked(p) == p

\* VAddr(base) & 0xFFFFFFFFFFFFULL
Mask48(p) == <<p[1], p[2], p[3], 0>>

\* base + dword_offset on a const u32*: the address plus 4 * dword_offset
AddrAdd(a, dword_offset) ==
    LET s0 == a[1] + (dword_offset % (Half \div 4)) * 4
        s1 == a[2] + dword_offset \div (Half \div 4) + s0 \div Half
        s2 == a[3] + s1 \div Half
        s3 == a[4] + s2 \div Half
    IN  <<s0 % Half, s1 % Half, s2 % Half, s3 % Half>>

\* A read of emulated memory; -1 when the address is not mapped and the read
\* faults
MemRead(a) == IF a \in DOMAIN memory THEN memory[a] ELSE -1

\* ReadUd without the test for the sentinel
ReadUd_NoSentinel(ptr_index, dword_offset, beyond) ==
    LET lo == UdWord(ptr_index, beyond)
        hi == UdWord(ptr_index + 1, beyond)
        addr == AddrAdd(<<lo % Half, lo \div Half, hi % Half, 0>>, dword_offset)
    IN  [data |-> MemRead(addr),
         reads |-> {<<"user_data", ptr_index>>, <<"user_data", ptr_index + 1>>,
                    <<"memory", addr>>},
         ptr |-> <<lo, hi>>]

\* Info::ReadUd<T>: data is the descriptor read, reads the locations read
\* (a descriptor is named by the location of its first word), ptr the two
\* words loaded as a pointer
ReadUd(ptr_index, dword_offset, beyond) ==
    IF ptr_index # NumScalarRegs
    THEN LET lo == UdWord(ptr_index, beyond)
             hi == UdWord(ptr_index + 1, beyond)
             base == Mask48(PtrOf(lo, hi))
             addr == AddrAdd(base, dword_offset)
         IN  [data |-> MemRead(addr),
              reads |-> {<<"user_data", ptr_index>>, <<"user_data", ptr_index + 1>>,
                         <<"memory", addr>>},
              ptr |-> <<lo, hi>>]
    ELSE [data |-> UdWord(dword_offset, beyond),
          reads |-> {<<"user_data", dword_offset>>},
          ptr |-> <<>>]

Inline(sharp) == [data |-> sharp, reads |-> {}, ptr |-> <<>>]

\* GetSharp that always follows the pointer
BufferGetSharp_AlwaysIndirect(e, beyond) == ReadUd(e.sgpr_base, e.dword_offset, beyond)

BufferGetSharp(e, beyond) ==
    IF e.inline_cbuf # NullSharp THEN Inline(e.inline_cbuf)
    ELSE ReadUd(e.sgpr_base, e.dword_offset, beyond)

TextureBufferGetSharp(e, beyond) == ReadUd(e.sgpr_base, e.dword_offset, beyond)

ImageGetSharp(e, beyond) == ReadUd(e.sgpr_base, e.dword_offset, beyond)

SamplerGetSharp(e, beyond) ==
    IF e.inline_sampler # NullSharp THEN Inline(e.inline_sampler)
    ELSE ReadUd(e.sgpr_base, e.dword_offset, beyond)

\* GetDrawOffsets with the two offsets exchanged
GetDrawOffsets_Exchanged ==
    <<IF info.instance_offset_sgpr # -1 THEN user_data[info.instance_offset_sgpr + 1] ELSE 0,
      IF info.vertex_offset_sgpr # -1 THEN user_data[info.vertex_offset_sgpr + 1] ELSE 0>>

GetDrawOffsets ==
    LET vertex_offset ==
            IF info.vertex_offset_sgpr # -1
            THEN user_data[info.vertex_offset_sgpr + 1] ELSE 0
        instance_offset ==
            IF info.instance_offset_sgpr # -1
            THEN user_data[info.instance_offset_sgpr + 1] ELSE 0
    IN  <<vertex_offset, instance_offset>>

ReadInit ==
    /\ user_data \in UdSnapshots
    /\ memory = MemoryImage
    /\ info \in [vertex_offset_sgpr : OffsetSgprs, instance_offset_sgpr : OffsetSgprs]
    /\ res = [op |-> "none"]
    /\ accesses = {}

Returned(kind, e, r) ==
    /\ res' = [op |-> "GetSharp", kind |-> kind, sgpr_base |-> e.sgpr_base,
               dword_offset |-> e.dword_offset,
               inline |-> IF kind = "buffer" THEN e.inline_cbuf
                          ELSE IF kind = "sampler" THEN e.inline_sampler ELSE NullSharp,
               sharp |-> r.data, ptr |-> r.ptr]
    /\ accesses' = r.reads
    /\ UNCHANGED <<user_data, memory, info>>

ResolveBuffer ==
    \E sgpr_base \in SgprBases, dword_offset \in DwordOffsets,
       inline_cbuf \in InlineSharps, beyond \in BeyondWords :
        LET e == [sgpr_base |-> sgpr_base, dword_offset |-> dword_offset,
                  inline_cbuf |-> inline_cbuf]
        IN  Returned("buffer", e, BufferGetSharp(e, beyond))

ResolveTextureBuffer ==
    \E sgpr_base \in SgprBases, dword_offset \in DwordOffsets, beyond \in BeyondWords :
        LET e == [sgpr_base |-> sgpr_base, dword_offset |-> dword_offset]
        IN  Returned("texture_buffer", e, TextureBufferGetSharp(e, beyond))

ResolveImage ==
    \E sgpr_base \in SgprBases, dword_offset \in DwordOffsets, beyond \in BeyondWords :
        LET e == [sgpr_base |-> sgpr_base, dword_offset |-> dword_offset]
        IN  Returned("image", e, ImageGetSharp(e, beyond))

ResolveSampler ==
    \E sgpr_base \in SgprBases, dword_offset \in DwordOffsets,
       inline_sampler \in InlineSharps, beyond \in BeyondWords :
        LET e == [sgpr_base |-> sgpr_base, dword_offset |-> dword_offset,
                  inline_sampler |-> inline_sampler]
        IN  Returned("sampler", e, SamplerGetSharp(e, beyond))

CallGetDrawOffsets ==
    /\ res' = [op |-> "GetDrawOffsets", offsets |-> GetDrawOffsets]
    /\ accesses' = {<<"user_data", i>> :
                       i \in {info.vertex_offset_sgpr, info.instance_offset_sgpr} \ {-1}}
    /\ UNCHANGED <<user_data, memory, info>>

ReadIdle ==
    /\ user_data = <<>>
    /\ memory = <<>>
    /\ info = [vertex_offset_sgpr |-> -1, instance_offset_sgpr |-> -1]
    /\ res = [op |-> "none"]
    /\ accesses = {}

(***************************************************************************)
(* The specifications: the analysis marking registers, a pipeline build    *)
(* followed by a bind, the bind-time reads                                 *)
(***************************************************************************)
SpecMaskInit == MaskIdle /\ PipeIdle /\ ReadIdle

SpecMaskNext ==
    \/ \E reg \in MaskRegs : Set(reg) /\ UNCHANGED <<pipeVars, readVars>>
    \/ \E reg \in MaskRegs : Index(reg) /\ UNCHANGED <<pipeVars, readVars>>
    \/ CallNumRegs /\ UNCHANGED <<pipeVars, readVars>>

SpecMask == SpecMaskInit /\ [][SpecMaskNext]_vars

SpecPipeInit == MaskIdle /\ PipeInit /\ ReadIdle

SpecPipeNext ==
    \/ BuildStep /\ UNCHANGED <<maskVars, readVars>>
    \/ SwappedStep /\ UNCHANGED <<maskVars, readVars>>
    \/ BindStep /\ UNCHANGED <<maskVars, readVars>>

SpecPipe == SpecPipeInit /\ [][SpecPipeNext]_vars

\* The bind-time reads of one Info record
SpecReadInit == MaskIdle /\ PipeIdle /\ ReadInit

SpecReadNext ==
    \/ ResolveBuffer /\ UNCHANGED <<maskVars, pipeVars>>
    \/ ResolveTextureBuffer /\ UNCHANGED <<maskVars, pipeVars>>
    \/ ResolveImage /\ UNCHANGED <<maskVars, pipeVars>>
    \/ ResolveSampler /\ UNCHANGED <<maskVars, pipeVars>>
    \/ CallGetDrawOffsets /\ UNCHANGED <<maskVars, pipeVars>>

SpecRead == SpecReadInit /\ [][SpecReadNext]_vars

(***************************************************************************)
(* Properties of the register mask                                         *)
(***************************************************************************)
\* The number of registers marked so far that lie strictly below reg
MarkedBelow(reg) == Cardinality({j \in set_calls : j < reg})

\* C3: after any sequence of Set calls on registers 0..31, NumRegs() is the
\* number of registers marked, and Index(i) of a marked register i, the top
\* register 31 included, is the number of marked registers strictly below i.
C3_RankIsBitsBelow ==
    /\ ret.op = "NumRegs" => ret.val = Cardinality(set_calls)
    /\ (ret.op = "Index" /\ ret.reg \in set_calls) => ret.val = MarkedBelow(ret.reg)

\* The same with Index(31) left out: the rank of every marked register up to
\* 30 and the count are as stated.
RankIsBitsBelowUpTo30 ==
    (ret.op = "Index" /\ ret.reg = 31) \/ C3_RankIsBitsBelow

(***************************************************************************)
(* Properties of the pipeline build and the bind                           *)
(***************************************************************************)
\* The registers a stage's analysis marked
RegSet(inf) == {inf.set_order[k] : k \in 1..Len(inf.set_order)}

Rank(inf, i) == Cardinality({j \in RegSet(inf) : j < i})

\* The register of rank k
Ranked(inf, k) == CHOOSE i \in RegSet(inf) : Rank(inf, i) = k

\* What one stage is to add to the three counters
Incr(inf) ==
    [buffer |-> Len(inf.buffers) + Len(inf.texture_buffers),
     unified |-> Len(inf.buffers) + Len(inf.texture_buffers)
                 + Len(inf.images) + Len(inf.samplers),
     user_data |-> Cardinality(RegSet(inf))]

Plus(b, d) ==
    [unified |-> b.unified + d.unified, buffer |-> b.buffer + d.buffer,
     user_data |-> b.user_data + d.user_data]

RECURSIVE SumIncr(_, _)
SumIncr(s, k) == IF k = 0 THEN ZeroBindings ELSE Plus(SumIncr(s, k - 1), Incr(s[k]))

\* The resource counts of a stage
Counts(inf) ==
    <<Len(inf.buffers), Len(inf.texture_buffers), Len(inf.images), Len(inf.samplers),
      Cardinality(RegSet(inf))>>

\* bnd.user_data when the bind reaches stage j
StartOf(j) == IF j = 1 THEN bnd0.user_data ELSE trail.bind[j - 1].user_data

\* The writes stage j made to push.ud_regs, in the order it made them
WritesOf(j) == SelectSeq(ud_writes, LAMBDA w : w[1] = j)

\* The stage of the end-to-end scenario: 2 buffers, 1 texel buffer, 1 image,
\* no sampler, 3 registers
IsScenarioStage(inf) ==
    /\ Len(inf.buffers) = 2 /\ Len(inf.texture_buffers) = 1
    /\ Len(inf.images) = 1 /\ Len(inf.samplers) = 0
    /\ Cardinality(RegSet(inf)) = 3

\* The scenario stage has gone through AddBindings from a zeroed accumulator
ScenarioRan ==
    /\ bnd0 = ZeroBindings
    /\ Len(trail.build) >= 1
    /\ IsScenarioStage(stages[1])

\* C1 as stated: one call of AddBindings adds buffers.size +
\* texture_buffers.size to bnd.buffer, that sum + images.size + samplers.size
\* to bnd.unified and the number of marked registers to bnd.user_data, and
\* the scenario stage, from a zeroed accumulator, gives buffer = 3,
\* unified = 5, user_data = 3.
C1_ScenarioAsStated ==
    /\ \A k \in 1..Len(trail.build) :
           trail.build[k] = Plus(IF k = 1 THEN bnd0 ELSE trail.build[k - 1], Incr(stages[k]))
    /\ ScenarioRan => trail.build[1] = [unified |-> 5, buffer |-> 3, user_data |-> 3]

\* C1 as amended: one call of AddBindings adds buffers.size +
\* texture_buffers.size to bnd.buffer, that sum + images.size + samplers.size
\* to bnd.unified and the number of marked registers to bnd.user_data,
\* whatever the accumulator held, and changes neither the Info records nor
\* anything else; the scenario stage, from a zeroed accumulator, gives
\* buffer = 3, unified = 4, user_data = 3.
C1_AddBindingsAdds ==
    /\ [][pc = "build" =>
            /\ bnd' = Plus(bnd, Incr(stages[pos + 1]))
            /\ UNCHANGED <<stages, bnd0, bnd_swap, bnd_push, push, ud_writes, ud_reads>>]_vars
    /\ [](ScenarioRan => trail.build[1] = [unified |-> 4, buffer |-> 3, user_data |-> 3])

C1_Witness ==
    /\ ScenarioRan
    /\ Len(stages) = 1
    /\ bnd = [unified |-> 4, buffer |-> 3, user_data |-> 3]

\* C2: a PushUd that completes, entered with bnd.user_data = u, leaves
\* user_data[i] at push.ud_regs[u + rank of i] for every marked register i,
\* writes these positions in ascending order and no other, and leaves
\* bnd.user_data at u + NumRegs(), in whatever order Set was called.
C2_PushUdPacksAscending ==
    \A j \in 1..Len(trail.bind) :
        LET inf == stages[j]
            u == StartOf(j)
            n == Cardinality(RegSet(inf))
        IN  /\ \A i \in RegSet(inf) :
                   push.ud_regs[u + Rank(inf, i)] = inf.user_data[i + 1]
            /\ trail.bind[j].user_data = u + n
            /\ WritesOf(j) = [k \in 1..n |-> <<j, u + k - 1, Ranked(inf, k - 1)>>]

C2_Witness ==
    /\ Len(trail.bind) >= 1
    /\ bnd0.user_data = 0
    /\ stages[1].set_order = <<9, 2, 5>>
    /\ WritesOf(1) = <<<<1, 0, 2>>, <<1, 1, 5>>, <<1, 2, 9>>>>
    /\ push.ud_regs[0] = stages[1].user_data[3]
    /\ push.ud_regs[2] = stages[1].user_data[10]

\* Packing the registers of inf from position u does not fit the layout
Overflows(u, inf) ==
    /\ RegSet(inf) # {}
    /\ \/ u + Cardinality(RegSet(inf)) > NumUserDataRegs
       \/ \E i \in RegSet(inf) : i >= NumUserDataRegs

\* C5: PushUd entered with bnd.user_data = u fails its assertion exactly
\* when the stage marks a register and u + NumRegs() > 16 or a marked
\* register has index >= 16; no position >= 16 of push.ud_regs is written
\* and no register >= 16 is read.
C5_PushUdAssertsOnOverflow ==
    /\ \A j \in 1..Len(trail.bind) : ~Overflows(StartOf(j), stages[j])
    /\ pc = "aborted" => Overflows(StartOf(pos + 1), stages[pos + 1])
    /\ \A k \in 1..Len(ud_writes) :
           ud_writes[k][2] < NumUserDataRegs /\ ud_writes[k][3] < NumUserDataRegs
    /\ \A k \in 1..Len(ud_reads) : ud_reads[k][2] < NumUserDataRegs

\* The assertion fails in the middle of a stage, after a completed stage
C5_Witness ==
    /\ pc = "aborted"
    /\ WritesOf(pos + 1) # <<>>
    /\ \E j \in 1..Len(trail.bind) : RegSet(stages[j]) # {}

\* C4 as stated: the stages [A,B] then [C] give the counters of [A,B,C] in
\* one pass, and for A and B of different resource counts the order [B,A]
\* ends with counters different from those of [A,B].
C4_SwappedOrderDiffers ==
    /\ \A k \in 1..Len(trail.build) : trail.build[k] = Plus(bnd0, SumIncr(stages, k))
    /\ (Len(trail.swapped) >= 2 /\ Counts(stages[1]) # Counts(stages[2]))
           => trail.swapped[2] # trail.build[2]

\* C4 as amended: the stages [A,B] then [C] give the counters of [A,B,C] in
\* one pass; the order [B,A] ends with the same counters as [A,B]; the
\* counters between the two stages differ exactly when A and B add
\* different amounts.
C4_SwappedOrderSameTotals ==
    /\ \A k \in 1..Len(trail.build) : trail.build[k] = Plus(bnd0, SumIncr(stages, k))
    /\ Len(trail.swapped) >= 2 => trail.swapped[2] = trail.build[2]
    /\ (Len(trail.swapped) >= 1 /\ Len(stages) >= 2)
           => (trail.swapped[1] # trail.build[1] <=> Incr(stages[1]) # Incr(stages[2]))
    /\ pc \in {"bind", "done", "aborted"} => bnd_swap = bnd

C4_Witness ==
    /\ Len(stages) = 3
    /\ pc = "bind"
    /\ Incr(stages[1]) # Incr(stages[2])
    /\ trail.swapped[1] # trail.build[1]
    /\ trail.swapped[3] = trail.build[3]

RECURSIVE SumRegs(_, _)
SumRegs(s, k) == IF k = 0 THEN 0 ELSE SumRegs(s, k - 1) + Cardinality(RegSet(s[k]))

\* C10: with both accumulators started at zero and the stages visited in the
\* same order, after every stage PushUd completes bnd.user_data of the bind
\* equals bnd.user_data of the build, the stage's registers occupy exactly
\* the positions from the sum of NumRegs of the earlier stages up to that
\* sum + its own NumRegs, and no position is written twice.
C10_PassesAgreeOnLayout ==
    bnd0 = ZeroBindings =>
        /\ \A j \in 1..Len(trail.bind) :
               /\ trail.bind[j].user_data = trail.build[j].user_data
               /\ {WritesOf(j)[k][2] : k \in 1..Len(WritesOf(j))}
                      = SumRegs(stages, j - 1) .. (SumRegs(stages, j) - 1)
        /\ \A k, l \in 1..Len(ud_writes) :
               (ud_writes[k][1] <= Len(trail.bind) /\ ud_writes[l][1] <= Len(trail.bind)
                    /\ ud_writes[k][2] = ud_writes[l][2]) => k = l

C10_Witness ==
    /\ bnd0 = ZeroBindings
    /\ pc = "done"
    /\ Len(stages) = 3
    /\ \A j \in 1..3 : RegSet(stages[j]) # {}
    /\ bnd_push.user_data = bnd.user_data

(***************************************************************************)
(* Properties of the bind-time reads                                       *)
(***************************************************************************)
\* C6: a buffer or sampler entry that carries an inline descriptor resolves
\* to that descriptor, and the call reads neither user_data nor memory, for
\* every sgpr_base and dword_offset.
C6_InlineReadsNothing ==
    (res.op = "GetSharp" /\ res.kind \in {"buffer", "sampler"} /\ res.inline # NullSharp)
        => (res.sharp = res.inline /\ accesses = {} /\ res.ptr = <<>>)

C6_Witness ==
    /\ res.op = "GetSharp"
    /\ res.kind = "buffer"
    /\ res.inline = 77
    /\ res.sgpr_base = 4 /\ res.dword_offset = 3
    /\ res.sharp = 77
    /\ accesses = {}

\* C7: a non-inline entry whose sgpr_base r is not the sentinel resolves to
\* the descriptor at the address whose low 48 bits are those of the 64-bit
\* value (user_data[r] low word, user_data[r + 1] high word) plus
\* 4 * dword_offset; bits 48..63 of the value play no part.
C7_IndirectReadsMasked ==
    (res.op = "GetSharp" /\ res.inline = NullSharp /\ res.sgpr_base # NumScalarRegs)
        => /\ Len(res.ptr) = 2
           /\ LET r == res.sgpr_base
                  lo == res.ptr[1]
                  hi == res.ptr[2]
                  addr == AddrAdd(<<lo % 65536, lo \div 65536, hi % 65536, 0>>,
                                  res.dword_offset)
              IN  /\ r < Len(user_data) => lo = user_data[r + 1]
                  /\ r + 1 < Len(user_data) => hi = user_data[r + 2]
                  /\ res.sharp = MemRead(addr)
                  /\ accesses = {<<"user_data", r>>, <<"user_data", r + 1>>,
                                 <<"memory", addr>>}

\* The pointer in words 4-5 has bits 48..62 set and resolves, at dword
\* offset 3, to the descriptor at 0x1000 + 12
C7_Witness ==
    /\ res.op = "GetSharp"
    /\ res.kind = "image"
    /\ res.sgpr_base = 4 /\ res.dword_offset = 3
    /\ res.ptr = <<4096, 2147418112>>
    /\ res.sharp = memory[<<4108, 0, 0, 0>>]
    /\ <<"memory", <<4108, 0, 0, 0>>>> \in accesses

\* C8: an entry whose sgpr_base is the sentinel NumScalarRegs is resolved
\* without loading a pointer from user_data and without reading memory
\* through one, for all four resource categories and every dword_offset: a
\* non-inline entry is read in place, from user_data at word dword_offset.
C8_SentinelNeverDereferences ==
    (res.op = "GetSharp" /\ res.sgpr_base = NumScalarRegs)
        => /\ res.ptr = <<>>
           /\ \A a \in accesses : a[1] # "memory"
           /\ res.inline = NullSharp =>
                  /\ accesses = {<<"user_data", res.dword_offset>>}
                  /\ res.dword_offset < Len(user_data)
                         => res.sharp = user_data[res.dword_offset + 1]

C8_Witness ==
    /\ res.op = "GetSharp"
    /\ res.kind = "texture_buffer"
    /\ res.sgpr_base = NumScalarRegs /\ res.dword_offset = 3
    /\ user_data[4] = 64
    /\ res.sharp = 64

\* C9: GetDrawOffsets returns, for each of vertex_offset_sgpr and
\* instance_offset_sgpr on its own, 0 when the field is -1 and the word of
\* user_data at that index otherwise, and changes neither the Info record
\* nor the user-data words.
C9_DrawOffsets ==
    /\ [](res.op = "GetDrawOffsets" =>
            /\ res.offsets[1] = IF info.vertex_offset_sgpr = -1 THEN 0
                                ELSE user_data[info.vertex_offset_sgpr + 1]
            /\ res.offsets[2] = IF info.instance_offset_sgpr = -1 THEN 0
                                ELSE user_data[info.instance_offset_sgpr + 1])
    /\ [][UNCHANGED <<user_data, info, memory>>]_vars

C9_Witness ==
    /\ res.op = "GetDrawOffsets"
    /\ info.vertex_offset_sgpr = 3 /\ info.instance_offset_sgpr = -1
    /\ user_data[4] = 64
    /\ res.offsets = <<64, 0>>

====
